---- MODULE Spec2Model ----
(***************************************************************************)
(* snapMatch (src/app/page.tsx): the round state of the Page component,    *)
(* its event handlers (startGame, flip, shuffleUnmatched, the modal        *)
(* buttons), its three effects (clock, timeout, win) and the timers they   *)
(* schedule (the one-second interval, the match / mismatch resolution      *)
(* time-outs, the 250 ms win display time-out).                            *)
(*                                                                         *)
(* A handler runs to completion, React commits the batched updates, and    *)
(* the effects whose dependencies changed run and may queue a further      *)
(* render: one action of the model is the handler plus that cascade.       *)
(* A time-out callback keeps the values of the render in which flip        *)
(* scheduled it (a, b, moves, cfg, and the revealed / matchedIds that      *)
(* shuffleUnmatched closes over); these are stored in the timer record.    *)
(***************************************************************************)
EXTENDS Integers, Sequences, FiniteSets, TLC

\* ------------------------------------------------------------------ bounds
\* Math.random() is drawn from {0/RandDen, ..., (RandDen-1)/RandDen}.
RandDen == 2
\* A round accepts at most MaxMoves two-tile attempts.
MaxMoves == 3
\* A time-out lasts 120 to 250 ms: at most MaxLag clicks that change the
\* state fall between its scheduling and its callback.
MaxLag == 2
\* The same bound in the specification of the races, which has no clock.
RaceLag == 3
\* The Reshuffle button is pressed at most MaxShuffles times in a round.
MaxShuffles == 1

\* ------------------------------------------------------- program constants
\* SYMBOL_POOLS, shortened: distinct symbols and a last entry that repeats
\* an earlier one (the source lists 19 distinct symbols and repeats the
\* 15th as the 20th).
SYMBOL_POOLS == <<"dot", "square", "diamond", "star7", "star7">>

DiffKey == {"easy", "hard"}

\* The table of the source, scaled: total 16 and 36 become 2 and 4 tiles
\* (1 and 2 pairs), timeLimit 60 and 180 become 1 and 2 ticks. The handlers
\* read total only through the deck they build from it and timeLimit only
\* in seconds >= cfg.timeLimit. speed is in hundredths (0.14 -> 14) so that
\* the delays stay integers.
DIFFICULTIES ==
  [easy |-> [cols |-> 4, total |-> 2, speed |-> 14, shuffleOn |-> "none",
             timeLimit |-> 1],
   hard |-> [cols |-> 6, total |-> 4, speed |-> 14,
             shuffleOn |-> "every3moves", timeLimit |-> 2]]

Max(x, y) == IF x >= y THEN x ELSE y

\* Math.max(120, cfg.speed * 400) and Math.max(220, cfg.speed * 700)
matchDelay(cfg) == Max(120, cfg.speed * 4)
mismatchDelay(cfg) == Max(220, cfg.speed * 7)
winDelay == 250

\* ----------------------------------------------------------------- shuffle
\* One run of shuffle consumes a stream of Math.random() values; stream u
\* gives ((u + i) % RandDen) / RandDen at loop index i, so a stream is not
\* constant. Math.floor(Math.random() * n) at loop index i:
randIndex(u, i, n) == (((u + i) % RandDen) * n) \div RandDen

swap(a, x, y) == [a EXCEPT ![x] = a[y], ![y] = a[x]]

\* The loop of shuffle: i runs from a.length - 1 down to 1 (0-based); the
\* sequence is 1-based, so slot i of the source is slot i + 1 here.
RECURSIVE shuffleLoop(_, _, _)
shuffleLoop(a, i, u) ==
  IF i <= 0 THEN a
  ELSE shuffleLoop(swap(a, i + 1, randIndex(u, i, i + 1) + 1), i - 1, u)

shuffle(arr, u) == shuffleLoop(arr, Len(arr) - 1, u)

slice(a, n) == IF Len(a) <= n THEN a ELSE SubSeq(a, 1, n)

RECURSIVE ensureLoop(_, _, _, _)
ensureLoop(out, pool, count, u) ==
  IF Len(out) >= count THEN out
  ELSE ensureLoop(out \o shuffle(pool, u), pool, count, u)

ensureLength(pool, count, u) == slice(ensureLoop(<<>>, pool, count, u), count)

\* The id `${s}-a-${i}` is the triple of its parts.
tileId(s, side, i) == <<s, side, i>>

RECURSIVE pairs(_, _)
pairs(symbols, i) ==
  IF i > Len(symbols) THEN <<>>
  ELSE << [id |-> tileId(symbols[i], "a", i - 1), s |-> symbols[i]],
          [id |-> tileId(symbols[i], "b", i - 1), s |-> symbols[i]] >>
       \o pairs(symbols, i + 1)

makeDeck(key, u1, u2) ==
  LET cfg == DIFFICULTIES[key]
      total == cfg.total
      pairCount == total \div 2
      symbols == ensureLength(SYMBOL_POOLS, pairCount, u1)
  IN  slice(shuffle(pairs(symbols, 1), u2), total)

Rand == 0 .. (RandDen - 1)

\* ------------------------------------------------------------------- state
VARIABLES
  showWinModal, showLoseModal,                   \* useState, lines 80-81
  diff, deck, revealed, matchedIds,              \* useState, lines 82-85
  moves, running, seconds, lock,                 \* useState, lines 86-89
  timerRef,       \* useRef: 0 is null, otherwise the id of an interval
  intervals,      \* ids of the intervals window.setInterval keeps active
  timeouts,       \* pending window.setTimeout callbacks, in scheduling order
  loseSignals,    \* history: runs of the timeout effect's body in this round
  winSignals,     \* history: runs of the win effect's body in this round
  shuffles        \* history: presses of the Reshuffle button in this round

vars == <<showWinModal, showLoseModal, diff, deck, revealed,
          matchedIds, moves, running, seconds, lock, timerRef, intervals,
          timeouts, loseSignals, winSignals, shuffles>>

\* The round state the claims speak of.
round == <<revealed, matchedIds, moves, running, seconds, lock, deck>>

St == [showWinModal |-> showWinModal,
       showLoseModal |-> showLoseModal, diff |-> diff, deck |-> deck,
       revealed |-> revealed, matchedIds |-> matchedIds, moves |-> moves,
       running |-> running, seconds |-> seconds, lock |-> lock,
       timerRef |-> timerRef, intervals |-> intervals, timeouts |-> timeouts,
       loseSignals |-> loseSignals, winSignals |-> winSignals]

Commit(c) ==
  /\ showWinModal' = c.showWinModal
  /\ showLoseModal' = c.showLoseModal
  /\ diff' = c.diff
  /\ deck' = c.deck
  /\ revealed' = c.revealed
  /\ matchedIds' = c.matchedIds
  /\ moves' = c.moves
  /\ running' = c.running
  /\ seconds' = c.seconds
  /\ lock' = c.lock
  /\ timerRef' = c.timerRef
  /\ intervals' = c.intervals
  /\ timeouts' = c.timeouts
  /\ loseSignals' = c.loseSignals
  /\ winSignals' = c.winSignals

Range(f) == {f[x] : x \in DOMAIN f}
ids(d) == {d[x].id : x \in DOMAIN d}

\* A time-out callback with what it reads of its closure: a.id and b.id
\* (match only), whether cfg.shuffleOn === "every3moves" and
\* (moves + 1) % 3 === 0 (reshuffle), and, when that holds, the revealed and
\* matchedIds that shuffleUnmatched closes over. stale and lag are history:
\* scheduled before the last startGame; the clicks since it was scheduled.
NoId == <<"none", "none", 0>>
timeoutRec(kind, delay, a, b, reshuffle, rev, mat) ==
  [kind |-> kind, delay |-> delay, a |-> a, b |-> b, reshuffle |-> reshuffle,
   revealed |-> IF reshuffle THEN rev ELSE <<>>,
   matchedIds |-> IF reshuffle THEN mat ELSE <<>>,
   stale |-> FALSE, lag |-> 0]

\* The history counters tell 0, 1 and "more than once" apart.
count(n) == IF n >= 2 THEN 2 ELSE n + 1

\* ----------------------------------------------------------------- effects
clearInterval(c, id) == [c EXCEPT !.intervals = @ \ {id}]

setInterval(c) ==
  LET id == CHOOSE n \in 1 .. (Cardinality(c.intervals) + 1) :
                n \notin c.intervals /\ \A m \in 1 .. (n - 1) : m \in c.intervals
  IN  [c EXCEPT !.timerRef = id, !.intervals = @ \cup {id}]

\* A faulty clock effect that returns no cleanup; C14 must tell it from
\* clockEffect.
clockEffectNoCleanup(p, r, n) ==
  IF p.running = r.running THEN n
  ELSE IF r.running THEN setInterval(n) ELSE n

\* useEffect(..., [running]): the cleanup of the previous run, then the body.
clockEffect(p, r, n) ==
  IF p.running = r.running THEN n
  ELSE LET cleaned == IF p.running THEN clearInterval(n, n.timerRef) ELSE n
       IN  IF r.running THEN setInterval(cleaned) ELSE cleaned

\* A faulty timeout effect that never stops the round; C21 must tell it
\* from timeoutEffect.
timeoutEffectNever(p, r, n) == n

\* useEffect(..., [seconds, diff, running])
timeoutEffect(p, r, n) ==
  IF /\ (p.seconds # r.seconds \/ p.diff # r.diff \/ p.running # r.running)
     /\ r.seconds >= DIFFICULTIES[r.diff].timeLimit
     /\ r.running
  THEN [(IF n.timerRef # 0 THEN clearInterval(n, n.timerRef) ELSE n)
          EXCEPT !.running = FALSE, !.showLoseModal = TRUE,
                 !.loseSignals = count(@)]
  ELSE n

\* useEffect(..., [matchedIds, deck.length]); touched: matchedIds was set
\* to a new array in this render.
winEffect(p, r, n, touched) ==
  IF /\ (touched \/ Len(p.deck) # Len(r.deck))
     /\ Len(r.matchedIds) = Len(r.deck)
     /\ Len(r.deck) > 0
  THEN [(IF n.timerRef # 0 THEN clearInterval(n, n.timerRef) ELSE n)
          EXCEPT !.running = FALSE, !.winSignals = count(@),
                 !.timeouts = Append(@, timeoutRec("win", winDelay, NoId,
                                                      NoId, FALSE, <<>>, <<>>))]
  ELSE n

\* The render of r after the render of p: the effects in source order, then
\* the render their updates ask for.
RECURSIVE render(_, _, _)
render(p, r, touched) ==
  LET n == winEffect(p, r, timeoutEffect(p, r, clockEffect(p, r, r)), touched)
  IN  IF n.running = r.running /\ n.showLoseModal = r.showLoseModal THEN n
      ELSE render(r, n, FALSE)

\* ---------------------------------------------------------------- handlers
markStale(ts) == [x \in DOMAIN ts |-> [ts[x] EXCEPT !.stale = TRUE]]

\* A faulty startGame without setLock(false); C12 must tell it from
\* startGame.
startGameKeepsLock(c, key, u1, u2) ==
  [c EXCEPT !.diff = key, !.deck = makeDeck(key, u1, u2), !.revealed = <<>>,
            !.matchedIds = <<>>, !.moves = 0, !.seconds = 0,
            !.running = FALSE, !.showWinModal = FALSE,
            !.showLoseModal = FALSE,
            !.timeouts = markStale(@), !.loseSignals = 0, !.winSignals = 0]

startGame(c, key, u1, u2) ==
  [c EXCEPT !.diff = key, !.deck = makeDeck(key, u1, u2), !.revealed = <<>>,
            !.matchedIds = <<>>, !.moves = 0, !.seconds = 0,
            !.running = FALSE, !.lock = FALSE, !.showWinModal = FALSE,
            !.showLoseModal = FALSE,
            !.timeouts = markStale(@), !.loseSignals = 0, !.winSignals = 0]

Undefined == [id |-> <<"undefined", "undefined", 0>>, s |-> "undefined"]

RECURSIVE refill(_, _, _, _, _)
refill(cloned, kept, shuffled, x, uIndex) ==
  IF x > Len(cloned) THEN <<>>
  ELSE IF cloned[x].id \in kept
       THEN <<cloned[x]>> \o refill(cloned, kept, shuffled, x + 1, uIndex)
       ELSE << IF uIndex + 1 <= Len(shuffled) THEN shuffled[uIndex + 1]
               ELSE Undefined >>
            \o refill(cloned, kept, shuffled, x + 1, uIndex + 1)

\* A faulty updater that permutes every slot, matched tiles included; C6
\* must tell it from reshuffled.
reshuffledAllSlots(prev, rev, mat, keepRevealed, u) == shuffle(prev, u)

\* The updater given to setDeck in shuffleUnmatched.
reshuffled(prev, rev, mat, keepRevealed, u) ==
  LET revealedSet == IF keepRevealed THEN Range(rev) ELSE {}
      matchedSet == Range(mat)
      unmatched == SelectSeq(prev,
          LAMBDA c : c.id \notin matchedSet /\ c.id \notin revealedSet)
      shuffledUnmatched == shuffle(unmatched, u)
      kept == matchedSet \cup (IF keepRevealed THEN revealedSet ELSE {})
  IN  refill(prev, kept, shuffledUnmatched, 1, 0)

\* shuffleUnmatched of the render whose revealed and matchedIds are rev, mat.
shuffleUnmatched(c, rev, mat, keepRevealed, u) ==
  IF Len(rev) > 0 THEN c
  ELSE [c EXCEPT !.deck = reshuffled(@, rev, mat, keepRevealed, u)]

find(d, id) ==
  IF \E x \in DOMAIN d : d[x].id = id
  THEN d[CHOOSE x \in DOMAIN d : d[x].id = id /\ \A y \in 1 .. (x - 1) : d[y].id # id]
  ELSE Undefined

\* A faulty guard without the limit of two revealed tiles and without the
\* lock; C7 must tell it from flipRejected.
flipRejectedNoLimit(c, cardId) ==
  \/ cardId \in Range(c.revealed)
  \/ cardId \in Range(c.matchedIds)

\* A faulty guard that lets a revealed tile be flipped again; C10 must tell
\* it from flipRejected.
flipRejectedNoRevealedCheck(c, cardId) ==
  \/ c.lock
  \/ cardId \in Range(c.matchedIds)
  \/ Len(c.revealed) >= 2

flipRejected(c, cardId) ==
  \/ c.lock
  \/ cardId \in Range(c.revealed)
  \/ cardId \in Range(c.matchedIds)
  \/ Len(c.revealed) >= 2

\* flip(cardId) throws: a or b is undefined (deck.find found no tile with
\* the id) and `a.s === b.s` reads a property of undefined.
flipFaults(c, cardId) ==
  /\ ~flipRejected(c, cardId)
  /\ Len(c.revealed) = 1
  /\ \/ find(c.deck, c.revealed[1]) = Undefined
     \/ find(c.deck, cardId) = Undefined

\* A faulty flip without setRunning(true); C18 must tell it from flip.
flipNoStart(c, cardId) ==
  IF flipRejected(c, cardId) THEN c
  ELSE
    LET next == Append(c.revealed, cardId)
        c1 == [c EXCEPT !.revealed = next]
    IN  IF Len(next) # 2 THEN c1
        ELSE IF flipFaults(c, cardId)
        THEN [c1 EXCEPT !.lock = TRUE, !.moves = @ + 1]
        ELSE
          LET a == find(c.deck, next[1])
              b == find(c.deck, next[2])
              isMatch == a.s = b.s
              cfg == DIFFICULTIES[c.diff]
              t == IF isMatch
                   THEN timeoutRec("match", matchDelay(cfg), a.id, b.id,
                            cfg.shuffleOn = "every3moves" /\ (c.moves + 1) % 3 = 0,
                            c.revealed, c.matchedIds)
                   ELSE timeoutRec("mismatch", mismatchDelay(cfg), NoId, NoId,
                                   FALSE, <<>>, <<>>)
          IN  [c1 EXCEPT !.lock = TRUE, !.moves = @ + 1,
                         !.timeouts = Append(@, t)]

\* When flip throws, the updates it queued before the throw (setRunning,
\* setRevealed, setLock, setMoves) are committed and no time-out is set.
flip(c, cardId) ==
  IF flipRejected(c, cardId) THEN c
  ELSE
    LET next == Append(c.revealed, cardId)
        c1 == [c EXCEPT !.running = TRUE, !.revealed = next]
    IN  IF Len(next) # 2 THEN c1
        ELSE IF flipFaults(c, cardId)
        THEN [c1 EXCEPT !.lock = TRUE, !.moves = @ + 1]
        ELSE
          LET a == find(c.deck, next[1])
              b == find(c.deck, next[2])
              isMatch == a.s = b.s
              cfg == DIFFICULTIES[c.diff]
              t == IF isMatch
                   THEN timeoutRec("match", matchDelay(cfg), a.id, b.id,
                            cfg.shuffleOn = "every3moves" /\ (c.moves + 1) % 3 = 0,
                            c.revealed, c.matchedIds)
                   ELSE timeoutRec("mismatch", mismatchDelay(cfg), NoId, NoId,
                                   FALSE, <<>>, <<>>)
          IN  [c1 EXCEPT !.lock = TRUE, !.moves = @ + 1,
                         !.timeouts = Append(@, t)]

\* A faulty callback that leaves the matched pair in revealed; C8 must
\* tell it from matchCallback.
matchCallbackKeepsRevealed(c, t, u) ==
  [c EXCEPT !.matchedIds = @ \o <<t.a, t.b>>, !.lock = FALSE]

\* A faulty callback without setLock(false); C20 must tell it from
\* matchCallback.
matchCallbackKeepsLock(c, t, u) ==
  [c EXCEPT !.matchedIds = @ \o <<t.a, t.b>>, !.revealed = <<>>]

\* The callback of the match time-out t.
matchCallback(c, t, u) ==
  LET c1 == [c EXCEPT !.matchedIds = @ \o <<t.a, t.b>>, !.revealed = <<>>,
                      !.lock = FALSE]
  IN  IF t.reshuffle
      THEN shuffleUnmatched(c1, t.revealed, t.matchedIds, TRUE, u)
      ELSE c1

\* A faulty callback without setRevealed([]); C16 must tell it from
\* mismatchCallback.
mismatchCallbackKeepsRevealed(c) == [c EXCEPT !.lock = FALSE]

\* A faulty callback without setLock(false); C19 must tell it from
\* mismatchCallback.
mismatchCallbackKeepsLock(c) == [c EXCEPT !.revealed = <<>>]

mismatchCallback(c) == [c EXCEPT !.revealed = <<>>, !.lock = FALSE]

winCallback(c) == [c EXCEPT !.showWinModal = TRUE]

RemoveAt(s, x) == SubSeq(s, 1, x - 1) \o SubSeq(s, x + 1, Len(s))

\* A time-out fires before every time-out scheduled later with a delay at
\* least as long.
canFire(ts, x) == \A y \in 1 .. (x - 1) : ts[y].delay > ts[x].delay

\* ----------------------------------------------------------------- actions
\* A click finds every pending time-out younger than L clicks.
canClickIn(L) == \A x \in DOMAIN timeouts : timeouts[x].lag < L
canClick == canClickIn(MaxLag)

\* The time-outs that were pending when the handler ran are one click
\* older, unless the handler returned without an update.
clicked(c) ==
  IF c = St THEN c
  ELSE [c EXCEPT !.timeouts = [x \in DOMAIN @ |->
          IF x <= Len(timeouts) THEN [@[x] EXCEPT !.lag = @ + 1] ELSE @[x]]]

Init ==
  /\ showWinModal = FALSE
  /\ showLoseModal = FALSE
  /\ diff = "easy"
  /\ \E u1, u2 \in Rand : deck = makeDeck("easy", u1, u2)
  /\ revealed = <<>>
  /\ matchedIds = <<>>
  /\ moves = 0
  /\ running = FALSE
  /\ seconds = 0
  /\ lock = FALSE
  /\ timerRef = 0
  /\ intervals = {}
  /\ timeouts = <<>>
  /\ loseSignals = 0
  /\ winSignals = 0
  /\ shuffles = 0

\* The level modal's buttons, onClick={() => startGame("easy" | "hard")},
\* and restartQuick (the Restart button, "Play again", "Try again") with
\* key = diff. showLevelModal is not part of the model: no handler or effect
\* reads it, and the New button opens the level modal in every state.
StartGameIn(L) ==
  /\ canClickIn(L)
  /\ \E key \in DiffKey, u1, u2 \in Rand :
       Commit(render(St, clicked(startGame(St, key, u1, u2)), TRUE))
  /\ shuffles' = 0

StartGame == StartGameIn(MaxLag)

\* The second button of the win modal and of the lose modal:
\* setShowWinModal(false) / setShowLoseModal(false); setShowLevelModal(true)
ModalPickLevel ==
  /\ canClick
  /\ \/ /\ showWinModal
        /\ Commit(render(St, clicked([St EXCEPT !.showWinModal = FALSE]),
                         FALSE))
     \/ /\ showLoseModal
        /\ Commit(render(St, clicked([St EXCEPT !.showLoseModal = FALSE]),
                         FALSE))
  /\ UNCHANGED shuffles

\* The Reshuffle button: onClick={() => shuffleUnmatched(true)}
Reshuffle ==
  /\ canClick
  /\ shuffles < MaxShuffles
  /\ shuffles' = shuffles + 1
  /\ \E u \in Rand :
       Commit(render(St, clicked(shuffleUnmatched(St, revealed, matchedIds,
                                                  TRUE, u)), FALSE))

\* A tile button: onClick={() => flip(c.id)}
FlipIn(L) ==
  \E cardId \in ids(deck) :
    /\ canClickIn(L)
    /\ flipRejected(St, cardId) \/ Len(revealed) # 1 \/ moves < MaxMoves
    /\ Commit(render(St, clicked(flip(St, cardId)), FALSE))
    /\ UNCHANGED shuffles

Flip == FlipIn(MaxLag)

age(ts) == [x \in DOMAIN ts |-> [ts[x] EXCEPT !.lag = MaxLag]]

\* A callback of the interval: setSeconds((s) => s + 1). The time-outs
\* last less than a second: none is pending over two ticks, and after a
\* tick the pending ones fire before the next click.
Tick ==
  /\ intervals # {}
  /\ canClick
  /\ seconds <= DIFFICULTIES["hard"].timeLimit
  /\ Commit(render(St, [St EXCEPT !.seconds = @ + 1, !.timeouts = age(@)],
                   FALSE))
  /\ UNCHANGED shuffles

\* The time-out scheduled by flip for a matching pair fires.
ResolveMatch ==
  \E x \in DOMAIN timeouts, u \in Rand :
    /\ timeouts[x].kind = "match"
    /\ canFire(timeouts, x)
    /\ Commit(render(St, matchCallback([St EXCEPT !.timeouts = RemoveAt(@, x)],
                                       timeouts[x], u), TRUE))
    /\ UNCHANGED shuffles

\* The time-out scheduled by flip for a non-matching pair fires.
ResolveMismatch ==
  \E x \in DOMAIN timeouts :
    /\ timeouts[x].kind = "mismatch"
    /\ canFire(timeouts, x)
    /\ Commit(render(St, mismatchCallback([St EXCEPT !.timeouts = RemoveAt(@, x)]),
                     FALSE))
    /\ UNCHANGED shuffles

\* The time-out scheduled by the win effect fires.
ShowWin ==
  \E x \in DOMAIN timeouts :
    /\ timeouts[x].kind = "win"
    /\ canFire(timeouts, x)
    /\ Commit(render(St, winCallback([St EXCEPT !.timeouts = RemoveAt(@, x)]),
                     FALSE))
    /\ UNCHANGED shuffles

Next ==
  \/ StartGame
  \/ ModalPickLevel
  \/ Reshuffle
  \/ Flip
  \/ Tick
  \/ ResolveMatch
  \/ ResolveMismatch
  \/ ShowWin

Spec == Init /\ [][Next]_vars

\* A time-out of the given kind leaves the queue because its callback ran
\* (after a match the win effect may append its own). In a behaviour of
\* Spec these are the steps of ResolveMatch, ResolveMismatch and ShowWin,
\* and one is possible exactly when that action is.
Fired(kind) ==
  \E x \in DOMAIN timeouts :
    /\ timeouts[x].kind = kind
    /\ canFire(timeouts, x)
    /\ \/ timeouts' = RemoveAt(timeouts, x)
       \/ timeouts' = Append(RemoveAt(timeouts, x),
                             timeoutRec("win", winDelay, NoId, NoId, FALSE,
                                        <<>>, <<>>))

\* The browser runs the callback of every time-out that is due, whatever
\* the user does in between: a callback that stays possible is run.
FairSpec ==
  /\ Spec
  /\ WF_timeouts(Fired("match"))
  /\ WF_timeouts(Fired("mismatch"))
  /\ WF_timeouts(Fired("win"))

\* The races of clicks and time-outs: rounds, flips and callbacks, without
\* the clock and the other buttons, with one more click per time-out.
RaceStartGame == StartGameIn(RaceLag)
RaceFlip == FlipIn(RaceLag)

NextRace ==
  \/ RaceStartGame
  \/ RaceFlip
  \/ ResolveMatch
  \/ ResolveMismatch
  \/ ShowWin

SpecRace == Init /\ [][NextRace]_vars

\* The rounds in which every two-tile attempt reveals two tiles of the same
\* symbol: the second tile of an attempt is chosen to match the first.
FlipMatching ==
  \E cardId \in ids(deck) :
    /\ canClick
    /\ \/ flipRejected(St, cardId)
       \/ Len(revealed) # 1
       \/ /\ Len(revealed) = 1
          /\ moves < MaxMoves
          /\ find(deck, revealed[1]).s = find(deck, cardId).s
    /\ Commit(render(St, clicked(flip(St, cardId)), FALSE))
    /\ UNCHANGED shuffles

NextAllMatch ==
  \/ StartGame
  \/ FlipMatching
  \/ Tick
  \/ ResolveMatch
  \/ ShowWin

SpecAllMatch == Init /\ [][NextAllMatch]_vars

\* The values the page derives from the state in each render.
totalPairs == Len(deck) \div 2
matchedPairs == Len(matchedIds) \div 2
\* Math.round((matchedPairs / totalPairs) * 100), Math.round rounding halves up
accuracyPct ==
  IF totalPairs # 0
  THEN (200 * matchedPairs + totalPairs) \div (2 * totalPairs)
  ELSE 0

\* ------------------------------------------------------------------ claims
symbolsOf(d) == {d[x].s : x \in DOMAIN d}
tilesWith(d, sym) == {x \in DOMAIN d : d[x].s = sym}
slotsOf(d, id) == {x \in DOMAIN d : d[x].id = id}

\* The callback of time-out x runs in this step: x leaves the queue, the
\* others stay as they are (a click or a tick changes their lag), and after
\* a match the win effect may append its time-out.
Fires(x) ==
  /\ x \in DOMAIN timeouts
  /\ \/ timeouts' = RemoveAt(timeouts, x)
     \/ /\ timeouts[x].kind = "match"
        /\ Len(timeouts') = Len(timeouts)
        /\ SubSeq(timeouts', 1, Len(timeouts) - 1) = RemoveAt(timeouts, x)
        /\ timeouts'[Len(timeouts)] =
             timeoutRec("win", winDelay, NoId, NoId, FALSE, <<>>, <<>>)

\* C1: the deck has cfg.total tiles, cfg.total is even, the tile ids are
\* pairwise distinct and every symbol of the deck is on exactly two tiles.
C1_DeckTwoPerSymbol ==
  /\ Len(deck) = DIFFICULTIES[diff].total
  /\ DIFFICULTIES[diff].total % 2 = 0
  /\ \A x, y \in DOMAIN deck : deck[x].id = deck[y].id => x = y
  /\ \A sym \in symbolsOf(deck) : Cardinality(tilesWith(deck, sym)) = 2

\* C2: a callback scheduled before the last startGame changes neither
\* matchedIds, revealed, lock nor the win banner of the new round.
C2_StaleCallbackInert ==
  [][\A x \in DOMAIN timeouts :
       timeouts[x].stale /\ Fires(x) =>
         UNCHANGED <<matchedIds, revealed, lock, showWinModal>>]_vars

\* C3: in one round the loss is signaled at most once, and once it is
\* signaled no step of the round changes seconds.
C3_LossOnceAndClockStopped ==
  [][/\ loseSignals' <= 1
     /\ loseSignals >= 1 /\ loseSignals' >= 1 => seconds' = seconds]_vars

\* The second half of C3 alone: once the loss is signaled, no step of the
\* round changes seconds.
C3_ClockStoppedAfterLoss ==
  [][loseSignals >= 1 /\ loseSignals' >= 1 => seconds' = seconds]_vars

\* C4: when matchedIds is as long as the non-empty deck, running is false
\* and the win has been signaled exactly once in this round.
C4_FullDeckStopsAndWinsOnce ==
  /\ winSignals <= 1
  /\ Len(matchedIds) = Len(deck) /\ Len(deck) > 0 =>
       ~running /\ winSignals = 1

\* The tiles the callback of time-out t leaves free to move, in deck order.
movable(t) ==
  SelectSeq(deck, LAMBDA c : c.id \notin Range(matchedIds) \cup {t.a, t.b})

\* C5: on hard, when the callback of a match of a 3rd, 6th, ... move can run
\* and two tiles or more stay unmatched, it can leave the deck in another
\* order; and whatever it does, the matched tiles keep their slots.
C5_ThirdMoveReshuffles ==
  \A x \in DOMAIN timeouts :
    LET t == timeouts[x] IN
    t.kind = "match" /\ t.reshuffle /\ ~t.stale /\ canFire(timeouts, x)
      /\ Len(movable(t)) >= 2 =>
        ENABLED (/\ ResolveMatch
                 /\ Fires(x)
                 /\ deck' # deck
                 /\ \A y \in DOMAIN deck :
                      deck[y].id \in Range(matchedIds) => deck'[y] = deck[y])

\* C6: in every reachable state, for every stream of random numbers,
\* shuffleUnmatched(true) keeps the length of the deck, keeps every tile
\* whose id is in matchedIds in its slot, and keeps every other tile of the
\* deck exactly once, in a slot that held an unmatched tile.
C6_ReshufflePermutesUnmatched ==
  \A u \in Rand :
    LET d == shuffleUnmatched(St, revealed, matchedIds, TRUE, u).deck
        free == {x \in DOMAIN deck : deck[x].id \notin Range(matchedIds)}
    IN  /\ Len(d) = Len(deck)
        /\ \A x \in DOMAIN deck \ free : d[x] = deck[x]
        /\ \A x \in free :
             /\ Cardinality(slotsOf(d, deck[x].id)) = 1
             /\ slotsOf(d, deck[x].id) \subseteq free
             /\ d[CHOOSE y \in slotsOf(d, deck[x].id) : TRUE] = deck[x]

\* C6, witness: the Reshuffle button was pressed in a round with a matched
\* pair in the deck, and a reshuffle can still move the tiles left.
C6_Witness ==
  /\ shuffles >= 1
  /\ revealed = <<>>
  /\ \E x \in DOMAIN deck : deck[x].id \in Range(matchedIds)
  /\ \E u \in Rand : shuffleUnmatched(St, revealed, matchedIds, TRUE, u).deck # deck

\* C7: revealed holds at most two tile ids.
C7_AtMostTwoRevealed == Len(revealed) <= 2

\* C7, witness: a second flip was accepted.
C7_Witness == Len(revealed) = 2 /\ moves >= 1

\* C8: no tile id is both in revealed and in matchedIds.
C8_RevealedNotMatched == Range(revealed) \cap Range(matchedIds) = {}

\* C8, witness: a tile is revealed in a round whose matchedIds holds the
\* pair of a callback that was pending when the round started, the other
\* tile of that pair being in the deck.
C8_Witness ==
  /\ Len(revealed) = 1
  /\ matchedIds # <<>>
  /\ moves = 0
  /\ Range(matchedIds) \cap ids(deck) # {}

\* A step of startGame, as far as matchedIds can tell.
Restarts == matchedIds' = <<>> /\ revealed' = <<>> /\ moves' = 0 /\ seconds' = 0

\* C9: the callback of a match scheduled in this round adds exactly two new
\* ids to matchedIds, the ids of its two tiles, and no step other than
\* startGame removes an id from matchedIds.
C9_MatchAddsTwo ==
  [][/\ \A x \in DOMAIN timeouts :
          Fires(x) /\ timeouts[x].kind = "match" /\ ~timeouts[x].stale =>
            LET new == Range(matchedIds') \ Range(matchedIds)
            IN  Cardinality(new) = 2 /\ new = {timeouts[x].a, timeouts[x].b}
     /\ Restarts \/ Range(matchedIds) \subseteq Range(matchedIds')]_vars

\* C10: flip(cardId) leaves the state as it is when lock is true, or cardId
\* is in revealed, or cardId is in matchedIds, or revealed holds two ids.
C10_FlipNoOp ==
  \A cardId \in ids(deck) \cup Range(revealed) \cup Range(matchedIds) :
    (\/ lock
     \/ cardId \in Range(revealed)
     \/ cardId \in Range(matchedIds)
     \/ Len(revealed) >= 2)
    => render(St, flip(St, cardId), FALSE) = St

\* C10, witness: two tiles are revealed and locked while another pair of
\* the deck is matched, so that every reason to return early occurs.
C10_Witness ==
  /\ lock
  /\ Len(revealed) = 2
  /\ Range(matchedIds) \cap ids(deck) # {}
  /\ \E cardId \in ids(deck) : cardId \notin Range(revealed) \cup Range(matchedIds)

\* An id that no tile of any deck carries.
UnknownId == <<"unknown", "a", 0>>

\* C11: flip of an id that is not in the deck leaves the state as it is
\* and does not throw, and neither does the flip of a tile after it.
C11_UnknownIdNoOp ==
  LET c == render(St, flip(St, UnknownId), FALSE)
  IN  /\ c = St
      /\ ~flipFaults(St, UnknownId)
      /\ \A cardId \in ids(deck) : ~flipFaults(c, cardId)

\* C12: in every reachable state, startGame(key) followed by the effects
\* yields the chosen difficulty with a deck built for it, revealed and
\* matchedIds empty, moves and seconds 0, running and lock false and both
\* banners hidden.
C12_StartGameResets ==
  \A key \in DiffKey, u1, u2 \in Rand :
    LET c == render(St, startGame(St, key, u1, u2), TRUE)
    IN  /\ c.diff = key
        /\ c.deck = makeDeck(key, u1, u2)
        /\ Len(c.deck) = DIFFICULTIES[key].total
        /\ c.revealed = <<>> /\ c.matchedIds = <<>>
        /\ c.moves = 0 /\ c.seconds = 0
        /\ ~c.running /\ ~c.lock
        /\ ~c.showWinModal /\ ~c.showLoseModal
        /\ c.intervals = {}

\* C12, witness: the state startGame left when it was called in the
\* resolution window of a pair (the time-out of that pair is still pending).
C12_Witness ==
  /\ \E x \in DOMAIN timeouts :
       timeouts[x].stale /\ timeouts[x].kind \in {"match", "mismatch"}
  /\ revealed = <<>> /\ matchedIds = <<>> /\ moves = 0 /\ seconds = 0
  /\ ~running /\ ~lock /\ ~showWinModal /\ ~showLoseModal

\* C13: from the signal of the loss to the next startGame, running is false
\* after every step and is not set to true within one (the timeout effect
\* would signal the loss again), matchedIds does not change and no win is
\* signaled; no round has both the loss and the win signaled.
C13_LossIsTerminal ==
  [][/\ loseSignals >= 1 /\ loseSignals' >= 1 =>
          /\ ~running'
          /\ loseSignals' = loseSignals
          /\ matchedIds' = matchedIds
          /\ winSignals' = winSignals
     /\ ~(loseSignals' >= 1 /\ winSignals' >= 1)]_vars

\* C14: at most one interval is active, and one is active exactly when
\* running is true.
C14_OneClockWhileRunning ==
  /\ Cardinality(intervals) <= 1
  /\ intervals # {} <=> running
  /\ intervals \subseteq {timerRef}

\* C14, witness: the clock of a round was started and startGame, called
\* while it ran, cleared it (neither a win nor a loss was signaled).
C14_Witness ==
  /\ timerRef # 0
  /\ intervals = {}
  /\ ~running
  /\ moves = 0 /\ revealed = <<>>
  /\ loseSignals = 0 /\ winSignals = 0
  /\ timeouts = <<>>

\* The pending time-outs that flip scheduled.
resolutions == {x \in DOMAIN timeouts : timeouts[x].kind \in {"match", "mismatch"}}

\* C15: at most one match / mismatch resolution time-out is pending.
C15_OneResolutionPending == Cardinality(resolutions) <= 1

\* C16: the callback of a mismatch empties revealed, clears lock and leaves
\* matchedIds, the deck and moves as they are; the flip that reveals a
\* second tile adds one to moves, and moves changes in no other step but
\* the reset to 0 of startGame.
C16_MismatchFrameAndMoves ==
  [][/\ \A x \in DOMAIN timeouts :
          Fires(x) /\ timeouts[x].kind = "mismatch" =>
            /\ revealed' = <<>> /\ ~lock'
            /\ matchedIds' = matchedIds /\ deck' = deck /\ moves' = moves
     /\ Len(revealed) = 1 /\ Len(revealed') = 2 => moves' = moves + 1
     /\ moves' # moves =>
          \/ Len(revealed) = 1 /\ Len(revealed') = 2 /\ moves' = moves + 1
          \/ Restarts]_vars

\* C16, witness: the one attempt of the round was a mismatch and its
\* callback has run.
C16_Witness ==
  /\ moves = 1
  /\ revealed = <<>> /\ ~lock
  /\ matchedIds = <<>>
  /\ timeouts = <<>>

\* C17: in a round in which every attempt matched and the time limit was
\* not reached, once the resolution of attempt number totalPairs has run,
\* every tile of the deck is in matchedIds, the win is signaled, moves is
\* totalPairs, matchedPairs is totalPairs and accuracyPct is 100.
C17_AllMatchesWin ==
  (/\ moves = totalPairs
   /\ revealed = <<>>
   /\ \A x \in DOMAIN timeouts : timeouts[x].kind = "match" => timeouts[x].stale
   /\ loseSignals = 0)
  => /\ ids(deck) \subseteq Range(matchedIds)
     /\ winSignals >= 1
     /\ matchedPairs = totalPairs
     /\ accuracyPct = 100

\* C18: running becomes true only in the step of an accepted flip, and an
\* accepted flip below the time limit leaves it true; the reset of moves by
\* startGame leaves it false; seconds changes only by +1 in a step that
\* starts with running true and an interval active, or to 0 in startGame;
\* a step that changes revealed, matchedIds, moves, lock or the deck within
\* a round leaves seconds as it is.
C18_RunningAndSeconds ==
  [][/\ ~running /\ running' => Len(revealed') = Len(revealed) + 1
     /\ Len(revealed') = Len(revealed) + 1
          /\ seconds < DIFFICULTIES[diff].timeLimit => running'
     /\ moves # 0 /\ moves' = 0 => ~running'
     /\ seconds' # seconds =>
          \/ /\ seconds' = seconds + 1
             /\ running /\ intervals # {}
             /\ UNCHANGED <<revealed, matchedIds, moves, lock, deck>>
          \/ seconds' = 0 /\ Restarts /\ ~running']_vars

\* C18, witness: the clock has ticked in a round that is still running,
\* with a tile revealed.
C18_Witness ==
  /\ running
  /\ seconds = 1
  /\ Len(revealed) = 1
  /\ diff = "hard"

\* C19: lock is true exactly when revealed holds two ids, and then a
\* resolution time-out is pending.
C19_LockIffTwoRevealed ==
  /\ lock <=> Len(revealed) = 2
  /\ lock => resolutions # {}

\* C19, witness: a second attempt of a round is locked after the first was
\* resolved and unlocked.
C19_Witness ==
  /\ lock
  /\ Len(revealed) = 2
  /\ moves = 2
  /\ Cardinality(resolutions) = 1

\* C20: when the callbacks of pending time-outs eventually run, every state
\* with two tiles revealed and lock true is followed by a state with
\* revealed empty and lock false.
C20_LockIsReleased ==
  (lock /\ Len(revealed) = 2) ~> (revealed = <<>> /\ ~lock)

\* C20, witness: the loss was signaled in the resolution window of a pair.
C20_Witness ==
  /\ lock
  /\ Len(revealed) = 2
  /\ showLoseModal
  /\ resolutions # {}

\* C21: seconds is between 0 and the time limit of the current difficulty;
\* when it is at the limit the round is stopped and no interval is active;
\* and startGame, whatever difficulty it selects, sets seconds to 0.
C21_SecondsWithinLimit ==
  /\ 0 <= seconds
  /\ seconds <= DIFFICULTIES[diff].timeLimit
  /\ seconds = DIFFICULTIES[diff].timeLimit => ~running /\ intervals = {}
  /\ \A key \in DiffKey, u1, u2 \in Rand :
       LET c == render(St, startGame(St, key, u1, u2), TRUE)
       IN  c.diff = key /\ c.seconds = 0

\* C21, witness: a hard round reached its limit, which is above the limit
\* of easy, and the clock was stopped.
C21_Witness ==
  /\ diff = "hard"
  /\ seconds = DIFFICULTIES["hard"].timeLimit
  /\ seconds > DIFFICULTIES["easy"].timeLimit
  /\ showLoseModal
  /\ timerRef # 0

\* C22: when the win banner is shown, every tile of the current deck is in
\* matchedIds.
C22_WinBannerOnlyWhenWon ==
  showWinModal => ids(deck) \subseteq Range(matchedIds)

====
